---------------------------- MODULE Spec2Model ----------------------------
(***************************************************************************)
(* Model of TriggerProcessor (src/service/zero_trigger.py): the run() loop *)
(* that receives audio frames, keeps a bounded window of them, scans the   *)
(* newest patch window for its equivalent level (Leq) and calls the sound  *)
(* classifier.                                                             *)
(*                                                                         *)
(* Units.  Lengths are counted in samples; a frame is the sequence of its  *)
(* samples.  A sample is its squared amplitude in units of the reference   *)
(* pressure, so np.sum(np.power(samples / reference_pressure, 2)) is the   *)
(* sum of a frame.  The clock counts ticks; the same tick is the unit of   *)
(* time.time() * 1000, of date_start/date_end and of the minute of the     *)
(* local time, a day being HoursPerDay * MinutesPerHour ticks.             *)
(***************************************************************************)
EXTENDS Integers, Sequences, FiniteSets, TLC

(* ------------------------------ bounds -------------------------------- *)

\* last value of the clock
MaxTime == 5
\* frames delivered by the transport in one run
MaxFrames == 3
\* longest patch window a snapshot is built for
MaxSnapshot == 3
\* frames in the window when the record branch is started
MaxRecordFrames == 2
\* scaled calendar: hours of a day, minutes of an hour
HoursPerDay == 2
MinutesPerHour == 2
\* int(patch_window_seconds * sample_rate): samples of one classifier patch
PatchSamples == 1
\* sample_rate * total_length: samples of one capture
CaptureSamples == 2

(* --------------------------- configuration ---------------------------- *)

\* an option that is not in the configuration
None == <<>>

\* what socket.recv() can deliver: the empty frame, frames of one sample and
\* frames of two samples (longer than the smallest keep_only_samples); a
\* sample is 0 (silence), 1 or 2
Frames == {<<>>, <<0>>, <<1>>, <<2>>, <<0, 2>>, <<2, 1>>, <<1, 0>>}

\* format_byte_width
format_byte_width == [S16_LE |-> 2, S32_LE |-> 4, FLOAT_LE |-> 4, S24_3LE |-> 3, S24_LE |-> 4]

\* every configuration over small option sets; the threshold min_leq is given
\* by the mean square it stands for, min_num / min_den:
\*   leq >= min_leq  <=>  sum_samples / processed_samples >= min_num / min_den
AllConfigs ==
    [date_start : {1},
     date_end : {2, 4},
     trigger_count : {0, 2},
     start_hour : {None, <<0, 1>>},
     end_hour : {None, <<1, 1>>},
     cached_samples : {1, 2},
     scan_samples : {0, 2},
     min_num : {2},
     min_den : {1},
     sample_format : {"S16_LE"},
     yamnet_max_gain : {20}]

\* the configurations a run starts from: every gate configuration with one
\* window configuration, and every window configuration with one gate
Configs ==
    {c \in AllConfigs :
        \/ c.cached_samples = 1 /\ c.scan_samples = 2
        \/ c.date_end = 2 /\ c.trigger_count = 2 /\ c.start_hour = None /\ c.end_hour = None}

VARIABLES
    config,               \* self.config, never written
    now,                  \* the clock
    pc,                   \* "outer": at the head of while True;
                          \* "ingest": in the inner loop, at socket.recv();
                          \* "crashed": run() ended with an uncaught exception
    status,               \* local status of run()
    remaining_samples,    \* self.remaining_samples
    remaining_triggers,   \* self.remaining_triggers
    samples_stack,        \* self.samples_stack, oldest frame first
    unprocessed_samples,  \* local of run()
    last_day_of_year,     \* local of run()
    cur_time,             \* local of run(): the time.time() * 1000 last read
    socket_connected,     \* the SUB socket is connected to input_address
    samples_trigger,      \* local of run(): the samples written to the capture
    socket_closed,        \* self.socket.closed
    trigger_time,         \* local of run()
    crypt,                \* encrypt(): its argument, its random key and IV and
                          \* its result, and what decrypting the result gives
    received,             \* history: the frames received since the window was reset
    ev                    \* history: what the last iteration of a loop did

vars == <<config, now, pc, status, remaining_samples, remaining_triggers,
          samples_stack, unprocessed_samples, last_day_of_year, cur_time,
          socket_connected, samples_trigger, socket_closed, trigger_time,
          crypt, received, ev>>

\* the state that only the record branch of run() writes
record_vars == <<samples_trigger, socket_closed, trigger_time, crypt>>

(* ------------------------------ helpers ------------------------------- *)

Max(a, b) == IF a >= b THEN a ELSE b
Min(a, b) == IF a <= b THEN a ELSE b

RECURSIVE SumSeq(_)
\* sum of a sequence of numbers
SumSeq(s) == IF s = <<>> THEN 0 ELSE s[1] + SumSeq(Tail(s))

RECURSIVE TotalLen(_)
\* sum([len(s) for s in self.samples_stack])
TotalLen(stack) == IF stack = <<>> THEN 0 ELSE Len(stack[1]) + TotalLen(Tail(stack))

\* datetime.datetime.now(): local day of the year, hour and minute at tick t
DayOfYear(t) == (t \div (HoursPerDay * MinutesPerHour)) + 1
HourOf(t) == (t % (HoursPerDay * MinutesPerHour)) \div MinutesPerHour
MinuteOf(t) == t % MinutesPerHour


(* -------------------------------- gate -------------------------------- *)

\* check_hour(), at local time t
check_hour(t) ==
    IF config.start_hour = None
    THEN TRUE
    ELSE LET start_ok == \/ HourOf(t) > config.start_hour[1]
                         \/ (HourOf(t) = config.start_hour[1] /\ MinuteOf(t) >= config.start_hour[2])
             end_ok == IF config.end_hour = None
                       THEN TRUE
                       ELSE \/ HourOf(t) < config.end_hour[1]
                            \/ (HourOf(t) = config.end_hour[1] /\ MinuteOf(t) < config.end_hour[2])
         IN  start_ok /\ end_ok

\* mutant of DeadlinePassed: the deadline is compared one tick late
DeadlinePassedLate(t) == t > config.date_end + 1

\* mutant of DeadlinePassed: the deadline branch is taken only while the
\* socket is still connected
DeadlinePassedOnce(t) == t > config.date_end /\ socket_connected

\* if cur_time > self.config.date_end
DeadlinePassed(t) == t > config.date_end

\* mutant of TimeConditionOk: the activation window starts at date_start itself
TimeConditionOkFromStart(triggers, t) ==
    triggers > 0 /\ t >= config.date_start /\ check_hour(t)

\* mutant of TimeConditionOk: the quota test lets a quota of zero through
TimeConditionOkZeroQuota(triggers, t) ==
    triggers >= 0 /\ t > config.date_start /\ check_hour(t)

\* elif self.remaining_triggers > 0 and cur_time > self.config.date_start
\*      and self.check_hour(), with triggers the value of remaining_triggers
TimeConditionOk(triggers, t) ==
    triggers > 0 /\ t > config.date_start /\ check_hour(t)

(* --------------------------- window buffer ---------------------------- *)

\* keep_only_samples = max(cached_length, patch_window_seconds) * sample_rate
keep_only_samples == Max(config.cached_samples, PatchSamples)

\* mutant of Evict: a single test instead of the loop, at most one frame goes
EvictOnce(stack, last_len) ==
    IF TotalLen(stack) > keep_only_samples + last_len THEN Tail(stack) ELSE stack

RECURSIVE EvictNewest(_, _)
\* mutant of Evict: pop() for popleft(), frames go from the newest end
EvictNewest(stack, last_len) ==
    IF TotalLen(stack) > keep_only_samples + last_len
    THEN EvictNewest(SubSeq(stack, 1, Len(stack) - 1), last_len)
    ELSE stack

RECURSIVE EvictEager(_, _)
\* mutant of Evict: >= for >, a frame also goes when the total is at the bound
EvictEager(stack, last_len) ==
    IF TotalLen(stack) >= keep_only_samples + last_len
    THEN EvictEager(Tail(stack), last_len)
    ELSE stack

RECURSIVE Evict(_, _)
\* while sum(len(s) for s in samples_stack) > keep_only_samples + len(frame):
\*     samples_stack.popleft()
Evict(stack, last_len) ==
    IF TotalLen(stack) > keep_only_samples + last_len
    THEN Evict(Tail(stack), last_len)
    ELSE stack

(* ------------------------------ leq scan ------------------------------ *)

\* mutant of ScanDue: a scan needs strictly more than the interval
ScanDueStrict(unprocessed) == unprocessed > config.scan_samples

\* if unprocessed_samples / sample_rate >= yamnet_scan_interval
\* (scan_samples is yamnet_scan_interval * sample_rate)
ScanDue(unprocessed) == unprocessed >= config.scan_samples

RECURSIVE AccumulateHead(_, _, _, _)
\* mutant of Accumulate: of a frame that only partly fits, the oldest samples
\* are taken instead of the newest
AccumulateHead(stack, i, processed_samples, sum_samples) ==
    IF i = 0 \/ processed_samples >= PatchSamples
    THEN [processed |-> processed_samples, sum |-> sum_samples]
    ELSE LET samples == stack[i]
             waveform == IF Len(samples) + processed_samples > PatchSamples
                         THEN SubSeq(samples, 1, PatchSamples - processed_samples)
                         ELSE samples
         IN  AccumulateHead(stack, i - 1, processed_samples + Len(waveform),
                            sum_samples + SumSeq(waveform))

RECURSIVE Accumulate(_, _, _, _)
\* the loop of the scan over reversed(samples_stack), from frame i down:
\* the number of samples taken and the sum of their squares
Accumulate(stack, i, processed_samples, sum_samples) ==
    IF i = 0 \/ processed_samples >= PatchSamples
    THEN [processed |-> processed_samples, sum |-> sum_samples]
    ELSE LET samples == stack[i]
             window == Len(samples) - (PatchSamples - processed_samples)
             waveform == IF Len(samples) + processed_samples > PatchSamples
                         THEN SubSeq(samples, window + 1, Len(samples))
                         ELSE samples
         IN  Accumulate(stack, i - 1, processed_samples + Len(waveform),
                        sum_samples + SumSeq(waveform))

\* mutant of LeqResult: the threshold test is reversed
LeqResultReversed(acc) ==
    IF acc.processed = 0 THEN "nan"
    ELSE IF acc.sum = 0 THEN "domain_error"
    ELSE IF acc.sum * config.min_den <= config.min_num * acc.processed THEN "ok"
    ELSE "below"

\* leq = 10 * math.log10(sum_samples / processed_samples), then leq >= min_leq:
\*   "nan"          0.0 / 0 of a numpy float is nan, log10(nan) is nan and
\*                  nan >= min_leq is false;
\*   "domain_error" math.log10(0.0) raises ValueError;
\*   "ok"           leq >= min_leq;
\*   "below"        leq < min_leq
LeqResult(acc) ==
    IF acc.processed = 0 THEN "nan"
    ELSE IF acc.sum = 0 THEN "domain_error"
    ELSE IF acc.sum * config.min_den >= config.min_num * acc.processed THEN "ok"
    ELSE "below"

(* ---------------------------- process_tags ---------------------------- *)

RECURSIVE SnapshotHead(_, _, _, _)
\* mutant of Snapshot: of a frame that does not fit, the oldest samples are
\* copied instead of the newest
SnapshotHead(stack, i, last_index, waveform) ==
    IF i = 0
    THEN waveform
    ELSE LET samples == stack[i]
             destination == last_index - Len(samples)
             samples_slice == SubSeq(samples, 1, last_index)
             copied == IF destination < 0
                       THEN [k \in 1..Len(waveform) |->
                               IF k <= Len(samples_slice) THEN samples_slice[k] ELSE waveform[k]]
                       ELSE [k \in 1..Len(waveform) |->
                               IF k > destination /\ k <= destination + Len(samples)
                               THEN samples[k - destination] ELSE waveform[k]]
         IN  IF destination <= 0
             THEN copied
             ELSE SnapshotHead(stack, i - 1, destination, copied)

RECURSIVE Snapshot(_, _, _, _)
\* the copy loop of process_tags over reversed(samples_stack), from frame i
\* down, into waveform, whose samples from last_index on are already copied
Snapshot(stack, i, last_index, waveform) ==
    IF i = 0
    THEN waveform
    ELSE LET samples == stack[i]
             destination == last_index - Len(samples)
             samples_slice == SubSeq(samples, 1 - destination, Len(samples))
             copied == IF destination < 0
                       THEN [k \in 1..Len(waveform) |->
                               IF k <= Len(samples_slice) THEN samples_slice[k] ELSE waveform[k]]
                       ELSE [k \in 1..Len(waveform) |->
                               IF k > destination /\ k <= destination + Len(samples)
                               THEN samples[k - destination] ELSE waveform[k]]
         IN  IF destination <= 0
             THEN copied
             ELSE Snapshot(stack, i - 1, destination, copied)

\* waveform = np.zeros(n), then the copy, for a patch window of n samples
WaveformOf(stack, n) == Snapshot(stack, Len(stack), n, [k \in 1..n |-> 0])

\* the waveform of process_tags: n = int(patch_window_seconds * sample_rate)
Waveform(stack) == WaveformOf(stack, PatchSamples)

\* process_tags(): "gain_fault" when the gain is computed from a peak of 0
\* (1 / max_value raises ZeroDivisionError), else what the classifier call
\* does: yam is "ok" when self.yamnet(waveform) returns, "fail" when it raises
process_tags(stack, yam) ==
    IF config.yamnet_max_gain > 0 /\ \A k \in 1..PatchSamples : Waveform(stack)[k] = 0
    THEN "gain_fault"
    ELSE yam

\* self.bytes_per_seconds * self.config.total_length
capture_length == CaptureSamples * format_byte_width[config.sample_format]


(* ------------------------------ run() --------------------------------- *)

NoTime == -1

\* encrypt() has not been called
NoCrypt == [audio_data |-> <<>>, aes_key |-> <<>>, iv |-> <<>>,
            output |-> <<>>, decrypted |-> <<>>]

NoEvent ==
    [op |-> "init", at |-> NoTime, scanned |-> FALSE, unprocessed |-> 0,
     leq |-> "none", classified |-> 0, since |-> 0, processed |-> 0, sum |-> 0,
     tags |-> "none", fault |-> "none", size |-> 0]

\* the state of run() when it reaches while True for the first time
Init ==
    /\ config \in Configs
    /\ now = 0
    /\ pc = "outer"
    /\ status = "wait_trigger"
    /\ remaining_samples = 0
    /\ remaining_triggers = config.trigger_count
    /\ samples_stack = <<>>
    /\ unprocessed_samples = 0
    /\ last_day_of_year = DayOfYear(0)
    /\ cur_time = NoTime
    /\ socket_connected = TRUE
    /\ samples_trigger = <<>>
    /\ socket_closed = FALSE
    /\ trigger_time = 0
    /\ crypt = NoCrypt
    /\ received = <<>>
    /\ ev = NoEvent

\* the clock advances
Tick ==
    /\ now < MaxTime
    /\ now' = now + 1
    /\ UNCHANGED <<config, pc, status, remaining_samples, remaining_triggers,
                   samples_stack, unprocessed_samples, last_day_of_year, cur_time,
                   socket_connected, received, ev>>
    /\ UNCHANGED record_vars

\* the head of an iteration of while True: on a new day of the year the
\* trigger counter is reset ("trigger_count" is always in the configuration).
\* The clock reads of one iteration (lines 200, 203, 206 and check_hour) fall
\* within the same tick.
DayRollover ==
    IF last_day_of_year # DayOfYear(now)
    THEN /\ last_day_of_year' = DayOfYear(now)
         /\ remaining_triggers' = config.trigger_count
    ELSE UNCHANGED <<last_day_of_year, remaining_triggers>>

\* an iteration of while True past date_end: the window is dropped and the
\* socket disconnected; disconnect() returns (raised = FALSE) or raises
Deadline ==
    /\ pc = "outer" /\ status = "wait_trigger"
    /\ DayRollover
    /\ DeadlinePassed(now)
    /\ cur_time' = now
    /\ samples_stack' = <<>>
    /\ received' = <<>>
    /\ socket_connected' = FALSE
    /\ \E raised \in BOOLEAN :
          /\ pc' = IF raised THEN "crashed" ELSE "outer"
          /\ ev' = [NoEvent EXCEPT !.op = "deadline", !.at = now]
    /\ UNCHANGED <<config, now, status, remaining_samples, unprocessed_samples>>
    /\ UNCHANGED record_vars

\* an iteration of while True whose time condition holds: the inner loop
\* while status == "wait_trigger" is entered
EnterIngest ==
    /\ pc = "outer" /\ status = "wait_trigger"
    /\ DayRollover
    /\ ~DeadlinePassed(now)
    /\ TimeConditionOk(remaining_triggers', now)
    /\ cur_time' = now
    /\ pc' = "ingest"
    /\ ev' = [NoEvent EXCEPT !.op = "enter", !.at = now]
    /\ UNCHANGED <<config, now, status, remaining_samples, samples_stack,
                   unprocessed_samples, socket_connected, received>>
    /\ UNCHANGED record_vars

\* an iteration of while True that takes neither branch and sleeps
Idle ==
    /\ pc = "outer" /\ status = "wait_trigger"
    /\ DayRollover
    /\ ~DeadlinePassed(now)
    /\ ~TimeConditionOk(remaining_triggers', now)
    /\ cur_time' = now
    /\ pc' = "outer"
    /\ ev' = [NoEvent EXCEPT !.op = "idle", !.at = now]
    /\ UNCHANGED <<config, now, status, remaining_samples, samples_stack,
                   unprocessed_samples, socket_connected, received>>
    /\ UNCHANGED record_vars


\* the body of an iteration of the inner loop on the frame audio_data_bytes:
\* the frame is appended, older frames are evicted, and when a scan is due the
\* leq of the newest patch window is computed and, at or above min_leq,
\* process_tags() is called
Ingest(audio_data_bytes, yam) ==
    LET unprocessed == unprocessed_samples + Len(audio_data_bytes)
        stack == Evict(Append(samples_stack, audio_data_bytes), Len(audio_data_bytes))
        scan == ScanDue(unprocessed)
        acc == Accumulate(stack, Len(stack), 0, 0)
        leq == IF scan THEN LeqResult(acc) ELSE "none"
        tags == IF leq = "ok" THEN process_tags(stack, yam) ELSE "none"
    IN  /\ samples_stack' = stack
        /\ unprocessed_samples' = IF scan /\ leq # "domain_error" THEN 0 ELSE unprocessed
        /\ remaining_samples' = IF tags = "ok" THEN capture_length ELSE remaining_samples
        /\ pc' = IF leq = "domain_error" \/ tags \in {"fail", "gain_fault"}
                 THEN "crashed" ELSE "ingest"
        /\ ev' = [op |-> "recv", at |-> now, scanned |-> scan,
                  unprocessed |-> unprocessed, leq |-> leq,
                  classified |-> IF tags = "none" THEN 0 ELSE 1,
                  since |-> IF scan THEN 0 ELSE ev.since + 1,
                  processed |-> IF scan THEN acc.processed ELSE 0,
                  sum |-> IF scan THEN acc.sum ELSE 0,
                  tags |-> tags,
                  fault |-> IF leq = "domain_error" THEN "ValueError"
                            ELSE IF tags = "gain_fault" THEN "ZeroDivisionError"
                            ELSE IF tags = "fail" THEN "classifier"
                            ELSE "none",
                  size |-> 0]

\* an iteration of the inner loop, on any frame the transport delivers
RecvFrame ==
    /\ pc = "ingest" /\ status = "wait_trigger"
    /\ Len(received) < MaxFrames
    /\ \E audio_data_bytes \in Frames, yam \in {"ok", "fail"} :
          /\ Ingest(audio_data_bytes, yam)
          /\ received' = Append(received, audio_data_bytes)
    /\ UNCHANGED <<config, now, status, remaining_triggers, last_day_of_year,
                   cur_time, socket_connected>>
    /\ UNCHANGED record_vars

Next == Tick \/ Deadline \/ EnterIngest \/ Idle \/ RecvFrame

Spec == Init /\ [][Next]_vars

(* --------------------- run() with frames that keep arriving ----------- *)

\* an iteration of the inner loop when the transport never runs out of
\* frames: any non-empty frame, any number of times (the history received is
\* not kept, so that the state stays finite)
RecvFrameLive ==
    /\ pc = "ingest" /\ status = "wait_trigger"
    /\ \E audio_data_bytes \in Frames \ {<<>>}, yam \in {"ok", "fail"} :
          Ingest(audio_data_bytes, yam)
    /\ UNCHANGED <<config, now, status, remaining_triggers, last_day_of_year,
                   cur_time, socket_connected, received>>
    /\ UNCHANGED record_vars

NextLive == Tick \/ Deadline \/ EnterIngest \/ Idle \/ RecvFrameLive

\* run() keeps running: time passes, an iteration of while True that is due
\* is taken (time.sleep(0.125) returns) and socket.recv() returns a frame
SpecLive ==
    /\ Init
    /\ [][NextLive]_vars
    /\ WF_vars(Tick)
    /\ WF_vars(Deadline \/ EnterIngest \/ Idle)
    /\ WF_vars(RecvFrameLive)


(* ------------------------- the record branch -------------------------- *)

\* The branch elif status == "record" (lines 260-292) is run from every
\* window the inner loop can leave behind and every remaining_samples up to
\* the capture length.  run() itself never sets status to "record" (line 259
\* is commented out), so under SpecRecord the branch is checked as an
\* operation on its inputs.

\* the configuration the record branch is run with
RecordConfigs ==
    {c \in Configs : c.cached_samples = 2 /\ c.scan_samples = 2}

\* the windows of at most MaxRecordFrames frames that satisfy the retention
\* bound of the eviction pass
RecordWindows ==
    {w \in UNION {[1..k -> Frames] : k \in 1..MaxRecordFrames} :
        Evict(w, Len(w[Len(w)])) = w}

InitRecord ==
    /\ config \in RecordConfigs
    /\ now = 0
    /\ pc = "outer"
    /\ status = "record"
    /\ remaining_samples \in 1..capture_length
    /\ remaining_triggers = config.trigger_count
    /\ samples_stack \in RecordWindows
    /\ unprocessed_samples = 0
    /\ last_day_of_year = DayOfYear(0)
    /\ cur_time = NoTime
    /\ socket_connected = TRUE
    /\ samples_trigger = <<>>
    /\ socket_closed = FALSE
    /\ trigger_time = 0
    /\ crypt = NoCrypt
    /\ received = samples_stack
    /\ ev = NoEvent

\* the transport is closed (self.socket.closed becomes True)
CloseSocket ==
    /\ pc \in {"outer", "drain"}
    /\ ~socket_closed
    /\ socket_closed' = TRUE
    /\ UNCHANGED <<config, now, pc, status, remaining_samples, remaining_triggers,
                   samples_stack, unprocessed_samples, last_day_of_year, cur_time,
                   socket_connected, samples_trigger, trigger_time, crypt,
                   received, ev>>

\* an iteration of while True with status == "record": the day rollover, then
\* the first test of while status == "record" and not self.socket.closed;
\* with the socket closed the iteration only sleeps
RecordBranch ==
    /\ pc = "outer" /\ status = "record"
    /\ DayRollover
    /\ pc' = IF socket_closed THEN "outer" ELSE "drain"
    /\ ev' = [NoEvent EXCEPT !.op = IF socket_closed THEN "record_idle" ELSE "record_enter",
                             !.at = now]
    /\ UNCHANGED <<config, now, status, remaining_samples, samples_stack,
                   unprocessed_samples, cur_time, socket_connected, samples_trigger,
                   socket_closed, trigger_time, crypt, received>>

\* an iteration of while status == "record" and not self.socket.closed:
\*   - the socket is closed: the loop is left, the iteration of while True sleeps;
\*   - the window is empty: popleft() raises IndexError;
\*   - else the oldest frame is popped and its first
\*     min(remaining_samples, len(samples)) samples are written to the capture;
\*     at remaining_samples == 0 status is set to "wait_trigger" and the
\*     export raises at self.data (line 272), an attribute that is never set
DrainFrame ==
    /\ pc = "drain" /\ status = "record"
    /\ IF socket_closed
       THEN /\ pc' = "outer"
            /\ ev' = [NoEvent EXCEPT !.op = "record_exit", !.at = now]
            /\ UNCHANGED <<status, remaining_samples, samples_stack, samples_trigger>>
       ELSE IF samples_stack = <<>>
       THEN /\ pc' = "crashed"
            /\ ev' = [NoEvent EXCEPT !.op = "drain", !.at = now, !.fault = "IndexError"]
            /\ UNCHANGED <<status, remaining_samples, samples_stack, samples_trigger>>
       ELSE LET samples == Head(samples_stack)
                size == Min(remaining_samples, Len(samples))
                done == remaining_samples - size = 0
            IN  /\ samples_stack' = Tail(samples_stack)
                /\ samples_trigger' = samples_trigger \o SubSeq(samples, 1, size)
                /\ remaining_samples' = remaining_samples - size
                /\ status' = IF done THEN "wait_trigger" ELSE "record"
                /\ pc' = IF done THEN "crashed" ELSE "drain"
                /\ ev' = [NoEvent EXCEPT !.op = "drain", !.at = now, !.size = size,
                                         !.fault = IF done THEN "AttributeError" ELSE "none"]
    /\ UNCHANGED <<config, now, remaining_triggers, unprocessed_samples,
                   last_day_of_year, cur_time, socket_connected, socket_closed,
                   trigger_time, crypt, received>>

NextRecord == Tick \/ CloseSocket \/ RecordBranch \/ DrainFrame

SpecRecord == InitRecord /\ [][NextRecord]_vars

(* ------------------------ process_tags() alone ------------------------ *)

\* process_tags() is a method of its own: under SpecTags it is called on
\* every window, silent ones included, with the gain on (yamnet_max_gain > 0)
\* and off (yamnet_max_gain == 0).

TagsConfigs ==
    {[c EXCEPT !.yamnet_max_gain = g] : c \in RecordConfigs, g \in {0, 20}}

InitTags ==
    /\ config \in TagsConfigs
    /\ now = 0
    /\ pc = "outer"
    /\ status = "wait_trigger"
    /\ remaining_samples = 0
    /\ remaining_triggers = config.trigger_count
    /\ samples_stack \in RecordWindows \cup {<<>>}
    /\ unprocessed_samples = 0
    /\ last_day_of_year = DayOfYear(0)
    /\ cur_time = NoTime
    /\ socket_connected = TRUE
    /\ samples_trigger = <<>>
    /\ socket_closed = FALSE
    /\ trigger_time = 0
    /\ crypt = NoCrypt
    /\ received = samples_stack
    /\ ev = NoEvent

\* a call of process_tags(): it returns the scores ("ok") or raises, from the
\* gain ("gain_fault") or from the classifier ("fail")
CallProcessTags ==
    /\ pc = "outer"
    /\ \E yam \in {"ok", "fail"} :
          LET tags == process_tags(samples_stack, yam)
          IN  /\ pc' = IF tags = "ok" THEN "outer" ELSE "crashed"
              /\ ev' = [NoEvent EXCEPT !.op = "tags", !.at = now, !.classified = 1,
                                       !.tags = tags,
                                       !.fault = IF tags = "gain_fault" THEN "ZeroDivisionError"
                                                 ELSE IF tags = "fail" THEN "classifier"
                                                 ELSE "none"]
    /\ UNCHANGED <<config, now, status, remaining_samples, remaining_triggers,
                   samples_stack, unprocessed_samples, last_day_of_year, cur_time,
                   socket_connected, received>>
    /\ UNCHANGED record_vars

NextTags == Tick \/ CallProcessTags

SpecTags == InitTags /\ [][NextTags]_vars

(* ----------------------------- encrypt() ----------------------------- *)

\* encrypt() is checked on its own, on every audio_data of at most
\* MaxPlainLen bytes.  A byte is 0 or 1 and a block has AES_block_size bytes
\* (16 in the code), so that aligned and unaligned lengths and trailing zero
\* bytes all occur.  AES and RSA-OAEP are stood for by small invertible
\* functions: what is checked is the padding and the framing around them.

\* AES.block_size, scaled
AES_block_size == 2
\* longest audio_data given to encrypt()
MaxPlainLen == 4

Bytes == {0, 1}
Blocks == [1..AES_block_size -> Bytes]
Plaintexts == UNION {[1..n -> Bytes] : n \in 0..MaxPlainLen}

\* bytewise exclusive or of two byte strings of the same length
Xor(a, b) == [i \in 1..Len(a) |-> (a[i] + b[i]) % 2]
Reverse(b) == [i \in 1..Len(b) |-> b[Len(b) + 1 - i]]

\* the block cipher under aes_key, a permutation of the blocks, and its inverse
AES_encrypt_block(aes_key, block) == Reverse(Xor(block, aes_key))
AES_decrypt_block(aes_key, block) == Xor(Reverse(block), aes_key)

RECURSIVE CBC_encrypt(_, _, _)
\* AES.new(aes_key, AES.MODE_CBC, iv).encrypt(data), previous the block that
\* is chained into the next one (the IV at first); data is whole blocks
CBC_encrypt(aes_key, previous, data) ==
    IF data = <<>>
    THEN <<>>
    ELSE LET block == AES_encrypt_block(aes_key, Xor(SubSeq(data, 1, AES_block_size), previous))
         IN  block \o CBC_encrypt(aes_key, block, SubSeq(data, AES_block_size + 1, Len(data)))

RECURSIVE CBC_decrypt(_, _, _)
\* the inverse of CBC_encrypt
CBC_decrypt(aes_key, previous, data) ==
    IF data = <<>>
    THEN <<>>
    ELSE LET block == SubSeq(data, 1, AES_block_size)
         IN  Xor(AES_decrypt_block(aes_key, block), previous)
                 \o CBC_decrypt(aes_key, block, SubSeq(data, AES_block_size + 1, Len(data)))

\* PKCS1_OAEP.new(key).encrypt(message) under the public key, and the
\* decryption under the matching private key
OAEP_encrypt(message) == [i \in 1..Len(message) |-> (message[i] + 1) % 2]
OAEP_decrypt(message) == [i \in 1..Len(message) |-> (message[i] + 1) % 2]

\* audio_data.ljust(width, b'\0')
ljust(audio_data, width) ==
    audio_data \o [i \in 1..(width - Len(audio_data)) |-> 0]

\* # pad audio data
Pad(audio_data) ==
    IF Len(audio_data) % AES_block_size > 0
    THEN ljust(audio_data,
               Len(audio_data) + AES_block_size - (Len(audio_data) % AES_block_size))
    ELSE audio_data

\* encrypt(audio_data), with the aes_key and iv it has drawn
encrypt(audio_data, aes_key, iv) ==
    OAEP_encrypt(aes_key \o iv) \o CBC_encrypt(aes_key, iv, Pad(audio_data))

RECURSIVE StripZeros(_, _)
\* data without its trailing zero bytes, at most n of them
StripZeros(data, n) ==
    IF n = 0 \/ data = <<>> \/ data[Len(data)] # 0
    THEN data
    ELSE StripZeros(SubSeq(data, 1, Len(data) - 1), n - 1)

\* the removal of the padding that encrypt added: zero bytes at the end, fewer
\* than a block of them
remove_padding(data) == StripZeros(data, AES_block_size - 1)

\* decryption with the matching private key: the key and the IV out of the
\* OAEP header, AES-CBC, then the padding removed
decrypt(output) ==
    LET header == OAEP_decrypt(SubSeq(output, 1, 2 * AES_block_size))
        aes_key == SubSeq(header, 1, AES_block_size)
        iv == SubSeq(header, AES_block_size + 1, 2 * AES_block_size)
    IN  remove_padding(CBC_decrypt(aes_key, iv,
                                   SubSeq(output, 2 * AES_block_size + 1, Len(output))))

\* pc is "plain" before encrypt() is called, "encrypted" when it has
\* returned, "decrypted" when its result has been decrypted
InitCrypt ==
    /\ config \in RecordConfigs
    /\ now = 0
    /\ pc = "plain"
    /\ status = "wait_trigger"
    /\ remaining_samples = 0
    /\ remaining_triggers = config.trigger_count
    /\ samples_stack = <<>>
    /\ unprocessed_samples = 0
    /\ last_day_of_year = DayOfYear(0)
    /\ cur_time = NoTime
    /\ socket_connected = TRUE
    /\ samples_trigger = <<>>
    /\ socket_closed = FALSE
    /\ trigger_time = 0
    /\ crypt \in {[NoCrypt EXCEPT !.audio_data = p] : p \in Plaintexts}
    /\ received = <<>>
    /\ ev = NoEvent

\* a call of encrypt(): aes_key and iv are drawn at random
Encrypt ==
    /\ pc = "plain"
    /\ \E aes_key \in Blocks, iv \in Blocks :
          crypt' = [crypt EXCEPT !.aes_key = aes_key, !.iv = iv,
                                 !.output = encrypt(crypt.audio_data, aes_key, iv)]
    /\ pc' = "encrypted"
    /\ UNCHANGED <<config, now, status, remaining_samples, remaining_triggers,
                   samples_stack, unprocessed_samples, last_day_of_year, cur_time,
                   socket_connected, samples_trigger, socket_closed, trigger_time,
                   received, ev>>

\* the receiver decrypts what encrypt() returned
Decrypt ==
    /\ pc = "encrypted"
    /\ crypt' = [crypt EXCEPT !.decrypted = decrypt(crypt.output)]
    /\ pc' = "decrypted"
    /\ UNCHANGED <<config, now, status, remaining_samples, remaining_triggers,
                   samples_stack, unprocessed_samples, last_day_of_year, cur_time,
                   socket_connected, samples_trigger, socket_closed, trigger_time,
                   received, ev>>

NextCrypt == Encrypt \/ Decrypt

SpecCrypt == InitCrypt /\ [][NextCrypt]_vars

(* ------------------------------ claims -------------------------------- *)

RECURSIVE Flatten(_)
\* the samples of a sequence of frames, oldest first
Flatten(stack) == IF stack = <<>> THEN <<>> ELSE stack[1] \o Flatten(Tail(stack))

\* the most recently appended frame
LastFrame == received[Len(received)]

\* the newest n samples of the window (all of them when it holds fewer)
Newest(n) ==
    LET all == Flatten(samples_stack)
    IN  SubSeq(all, Len(all) - Min(n, Len(all)) + 1, Len(all))

\* C1: after every append and its eviction pass the window holds at most
\* keep_only_samples + len(most recently appended frame) samples, whatever the
\* frame lengths (frames longer than keep_only_samples, empty frames).
C1_RetentionBound ==
    TotalLen(samples_stack)
        <= keep_only_samples + (IF received = <<>> THEN 0 ELSE Len(LastFrame))

\* C1 witness: an empty frame was appended after a frame longer than
\* keep_only_samples, and the eviction pass dropped at least two frames.
C1_Witness ==
    /\ received # <<>> /\ LastFrame = <<>>
    /\ \E i \in 1..Len(received) : Len(received[i]) > keep_only_samples
    /\ Len(samples_stack) + 2 <= Len(received)

\* C2: the frames in the window are a contiguous suffix of the frames received
\* since the window was last reset, in arrival order and each in full.
C2_WholeFramesFromOldest ==
    \E k \in 0..Len(received) : samples_stack = SubSeq(received, k + 1, Len(received))

\* C2 witness: frames were evicted and more than one frame is retained.
C2_Witness ==
    /\ Len(samples_stack) >= 2
    /\ Len(samples_stack) < Len(received)
    /\ samples_stack[1] # samples_stack[2]

C4_NoQuotaNoDetection ==
    remaining_triggers = 0 =>
        /\ pc # "ingest"
        /\ ev.op \notin {"enter", "recv"}
        /\ samples_stack = <<>>
        /\ remaining_samples = 0

\* C4 witness: with remaining_triggers 0, after a day rollover, an iteration
\* inside the activation window whose hour check passes stayed idle.
C4_Witness ==
    /\ remaining_triggers = 0
    /\ ev.op = "idle"
    /\ last_day_of_year # DayOfYear(0)
    /\ cur_time > config.date_start /\ cur_time <= config.date_end
    /\ check_hour(cur_time)

\* C6: no Leq scan (hence no classification and no trigger) happens at a time
\* after the clock has passed date_end.
C6_NoScanAfterDateEnd ==
    ~(ev.op = "recv" /\ ev.scanned /\ ev.at > config.date_end)

\* C7: once an iteration has taken the deadline branch (the socket is then
\* disconnected) the window is empty, the inner loop is not entered and no
\* frame is received, in that state and in every later one.
C7_DisabledIsAbsorbing ==
    ~socket_connected =>
        /\ samples_stack = <<>>
        /\ pc # "ingest"
        /\ ev.op = "deadline"
        /\ cur_time > config.date_end

\* C7 witness: a later iteration, more than a tick after date_end, at which
\* the quota, the start date and the hour check would let the gate open.
C7_Witness ==
    /\ ~socket_connected /\ pc = "outer"
    /\ cur_time > config.date_end + 1
    /\ TimeConditionOk(remaining_triggers, cur_time)

\* C8: a scan runs exactly when the unprocessed samples reach the scan
\* interval after an append, every scan leaves unprocessed_samples at 0, and
\* between scans unprocessed_samples is the total length of the frames
\* appended since the last scan.
C8_ScanResetsUnprocessed ==
    ev.op = "recv" =>
        /\ ev.scanned <=> (ev.unprocessed >= config.scan_samples)
        /\ ev.scanned => unprocessed_samples = 0
        /\ ~ev.scanned =>
              unprocessed_samples
                  = TotalLen(SubSeq(received, Len(received) - ev.since + 1, Len(received)))

\* C9: process_tags is called at most once in an iteration, and only in one
\* that scanned and found the mean square of the newest patch window at or
\* above the threshold; a scan below the threshold calls no classification
\* and leaves status, remaining_samples and remaining_triggers as they were.
C9_ClassifyOnlyAtOrAboveMinLeq ==
    /\ [](/\ ev.classified \in {0, 1}
          /\ ev.classified = 1 =>
                /\ ev.scanned
                /\ Newest(PatchSamples) # <<>>
                /\ SumSeq(Newest(PatchSamples)) * config.min_den
                       >= config.min_num * Len(Newest(PatchSamples))
          /\ ev.leq = "below" => ev.classified = 0)
    /\ [][ev'.op = "recv" /\ ev'.leq = "below" =>
             UNCHANGED <<status, remaining_samples, remaining_triggers>>]_vars

\* C9 witness: after an earlier scan that called process_tags, a scan below
\* the threshold called no classification.
C9_Witness ==
    /\ ev.op = "recv" /\ ev.scanned /\ ev.leq = "below" /\ ev.classified = 0
    /\ remaining_samples = capture_length
    /\ pc = "ingest"

\* C10: when every received frame is silent, a scan calls no classification,
\* changes no state and the loop goes on receiving frames in wait_trigger.
C10_SilentScanGoesOn ==
    (/\ ev.op = "recv" /\ ev.scanned
     /\ \A i \in 1..Len(received) : \A k \in 1..Len(received[i]) : received[i][k] = 0)
        => /\ pc = "ingest"
           /\ status = "wait_trigger"
           /\ ev.classified = 0
           /\ remaining_samples = 0

\* C11: whenever the Leq expression sum_samples / processed_samples is
\* evaluated (a scan ran), processed_samples >= 1.
C11_LeqOnAtLeastOneSample ==
    (ev.op = "recv" /\ ev.scanned) => ev.processed >= 1

\* C12: the step of a scan at or above min_leq whose classification succeeded
\* moves status to record, sets remaining_samples to the capture length and
\* takes exactly one trigger from remaining_triggers.
C12_QualifyingScanStartsRecord ==
    [][(ev'.op = "recv" /\ ev'.tags = "ok") =>
          /\ status' = "record"
          /\ remaining_samples' = capture_length
          /\ remaining_triggers' = remaining_triggers - 1]_vars

\* C13: remaining_samples is counted in samples: when a capture is armed it is
\* total_length * sample_rate, the number of samples of a completed capture,
\* whatever the sample format.
C13_CaptureCountedInSamples ==
    remaining_samples \in {0, CaptureSamples}

C18_SnapshotIsNewestRightAligned ==
    (ev.op = "recv" /\ ev.at = now) =>
        /\ \A n \in 1..MaxSnapshot :
              LET newest == Newest(n)
                  snap == WaveformOf(samples_stack, n)
              IN  /\ Len(snap) = n
                  /\ \A k \in 1..n :
                        snap[k] = IF k <= n - Len(newest) THEN 0
                                  ELSE newest[k - (n - Len(newest))]
        /\ ev.tags # "none" =>
              /\ samples_stack # <<>>
              /\ C2_WholeFramesFromOldest

\* C18 witness: process_tags ran on a window of several frames whose newest
\* frame is longer than the patch window and which holds fewer samples than
\* the longest snapshot built.
C18_Witness ==
    /\ ev.op = "recv" /\ ev.tags = "ok"
    /\ Len(samples_stack) >= 2
    /\ Len(samples_stack[Len(samples_stack)]) > PatchSamples
    /\ TotalLen(samples_stack) < MaxSnapshot

\* the daily window as C19 states it: at or after start_hour when one is
\* configured, and before end_hour when one is configured
InHourWindow(t) ==
    /\ \/ config.start_hour = None
       \/ HourOf(t) > config.start_hour[1]
       \/ (HourOf(t) = config.start_hour[1] /\ MinuteOf(t) >= config.start_hour[2])
    /\ \/ config.end_hour = None
       \/ HourOf(t) < config.end_hour[1]
       \/ (HourOf(t) = config.end_hour[1] /\ MinuteOf(t) < config.end_hour[2])

\* C19: the hour check is true iff the local time is at or after start_hour
\* (when configured) and before end_hour (when configured): an iteration that
\* reaches the hour check enters the inner loop iff the time is in that window.
C19_HourCheckIsDailyWindow ==
    (/\ ev.op \in {"enter", "idle"}
     /\ remaining_triggers > 0 /\ cur_time > config.date_start)
        => /\ check_hour(cur_time) <=> InHourWindow(cur_time)
           /\ ev.op = "enter" <=> InHourWindow(cur_time)

C21_QuotaBoundedAndConsumed ==
    /\ [](0 <= remaining_triggers /\ remaining_triggers <= config.trigger_count)
    /\ [][IF received' # received /\ ev'.op = "recv" /\ ev'.tags = "ok"
          THEN /\ remaining_triggers' = remaining_triggers - 1
               /\ remaining_triggers' >= 0
          ELSE \/ remaining_triggers' = remaining_triggers
               \/ /\ remaining_triggers' = config.trigger_count
                  /\ last_day_of_year' # last_day_of_year]_vars

\* C22: whenever the local day of the year differs from last_day_of_year
\* while run() is running, the change is eventually observed: last_day_of_year
\* is the current day and remaining_triggers is trigger_count again, frames
\* arriving all the time.
C22_RolloverEventuallyObserved ==
    (pc # "crashed" /\ last_day_of_year # DayOfYear(now))
        ~> \/ pc = "crashed"
           \/ /\ last_day_of_year = DayOfYear(now)
              /\ remaining_triggers = config.trigger_count

\* C23: an iteration whose classifier call failed is skipped: the inner loop
\* goes on receiving frames in wait_trigger, and the step leaves status,
\* remaining_samples and remaining_triggers as they were.
C23_ClassifierFailureIsSkipped ==
    /\ []((ev.op = "recv" /\ ev.fault = "classifier")
              => (pc = "ingest" /\ status = "wait_trigger"))
    /\ [][(received' # received /\ ev'.fault = "classifier")
              => UNCHANGED <<status, remaining_samples, remaining_triggers>>]_vars

\* C24: with yamnet_max_gain > 0, process_tags() on a silent snapshot (peak
\* amplitude 0) raises no arithmetic fault: the gain is skipped and the
\* classifier is called, so the call ends as the classifier call ends.
C24_SilentSnapshotIsNoGain ==
    (/\ ev.op = "tags"
     /\ config.yamnet_max_gain > 0
     /\ \A k \in 1..PatchSamples : Waveform(samples_stack)[k] = 0)
        => /\ ev.fault # "ZeroDivisionError"
           /\ ev.tags \in {"ok", "fail"}

\* C25: decrypting encrypt(audio_data) with the matching private key gives
\* audio_data back exactly, for lengths that are a multiple of the AES block
\* size and lengths that are not, audio_data ending in zero bytes included.
C25_DecryptReproducesPlaintext ==
    pc = "decrypted" => crypt.decrypted = crypt.audio_data

\* C26: a Leq scan accumulates exactly the newest min(retained, N) samples of
\* the window, N = PatchSamples: processed_samples is that number, never more
\* than N, and sum_samples is the sum over those samples, so that frames are
\* taken newest first and of a frame that only partly fits the newest tail.
C26_ScanTakesNewestPatch ==
    (ev.op = "recv" /\ ev.scanned) =>
        /\ ev.processed <= PatchSamples
        /\ ev.processed = Min(TotalLen(samples_stack), PatchSamples)
        /\ ev.processed = Len(Newest(PatchSamples))
        /\ ev.sum = SumSeq(Newest(PatchSamples))

\* C26 witness: a scan went past an empty newest frame and took the newest
\* tail of an older frame that does not fit whole, head and tail differing.
C26_Witness ==
    /\ ev.op = "recv" /\ ev.scanned
    /\ Len(samples_stack) >= 2
    /\ samples_stack[Len(samples_stack)] = <<>>
    /\ LET older == samples_stack[Len(samples_stack) - 1]
       IN  /\ Len(older) > PatchSamples
           /\ older[1] # older[Len(older)]
           /\ ev.sum = older[Len(older)]
    /\ ev.processed = PatchSamples

\* C27: the eviction pass of an append is minimal and keeps the frame just
\* appended: the window is not empty and ends with that frame, the frames
\* removed are the oldest ones, and when a frame was removed the retained
\* total plus the length of the last frame removed exceeds
\* keep_only_samples + len(newest frame); once frames of one length L > 0
\* amounting to keep_only_samples + L samples have been received, the window
\* holds more than keep_only_samples samples and a patch window of it is full.
C27_EvictionIsMinimal ==
    /\ [][received' # received =>
            LET frame == received'[Len(received')]
                appended == Append(samples_stack, frame)
                evicted == Len(appended) - Len(samples_stack')
            IN  /\ samples_stack' # <<>>
                /\ evicted \in 0..Len(samples_stack)
                /\ samples_stack' = SubSeq(appended, evicted + 1, Len(appended))
                /\ samples_stack'[Len(samples_stack')] = frame
                /\ TotalLen(samples_stack') <= keep_only_samples + Len(frame)
                /\ evicted > 0 =>
                      TotalLen(samples_stack') + Len(appended[evicted])
                          > keep_only_samples + Len(frame)]_vars
    /\ [](\A L \in {Len(f) : f \in Frames} \ {0} :
            (/\ \A i \in 1..Len(received) : Len(received[i]) = L
             /\ TotalLen(received) >= keep_only_samples + L)
                => /\ TotalLen(samples_stack) > keep_only_samples
                   /\ Len(Newest(PatchSamples)) = PatchSamples)

\* C27 witness: the window held two frames (the second append removed
\* nothing) and the third append removed both, keeping only the frame just
\* appended.
C27_Witness ==
    /\ ev.op = "recv"
    /\ Len(received) = 3
    /\ received[1] # <<>> /\ received[2] # <<>>
    /\ Len(received[1]) + Len(received[2]) <= keep_only_samples + Len(received[2])
    /\ samples_stack = <<LastFrame>>

\* C28: remaining_samples is non-zero only while a capture is in progress: in
\* every state with status == wait_trigger, remaining_samples is 0 and the
\* capture accumulator samples_trigger is empty.
C28_IdleMeansNoCapture ==
    status = "wait_trigger" => (remaining_samples = 0 /\ samples_trigger = <<>>)

====
